---- MODULE Spec2Model ----
(***************************************************************************)
(* Contexus content script: conversation observation and message-lifecycle *)
(* pipeline (ContentManager), the capture affordance (CaptureButtonRenderer *)
(* and ShadowCaptureButton) and the messaging layer behind it.              *)
(*                                                                         *)
(* A message element is a node of Nodes.  The page (host) owns the DOM:     *)
(* whether the node is in the document, the length of the text its content  *)
(* element yields, whether an element matched by the completion rule (the   *)
(* loading indicator) is inside it and whether it has an action bar.  The   *)
(* controller writes marker attributes, the snapshot and the affordance on  *)
(* the element itself, and keeps processedMessages.                         *)
(*                                                                         *)
(* Mutation records are delivered in a microtask at the end of the task     *)
(* that produced them, so no timer fires between a mutation and the         *)
(* callback that delivers it.                                               *)
(***************************************************************************)
EXTENDS Integers, Sequences, FiniteSets, TLC

\* ---------------------------------------------------------------- bounds
MaxBatch == 2
MaxTimers == 2
MaxPrepare == 2
MaxLeaked == 1
MaxResets == 3
MaxButtons == 2
MaxCalls == 2
MaxSends == 3
MaxDogs == 2
MaxElements == 3
MaxUuids == 4
MaxTemplateIds == 2
\* the element library: a template and one other element, by id
Templates == {"t1"}
Library == Templates \cup {"e1"}
Slots == {"s1"}

Nodes == {"m1"}
\* 20 is the boundary of the capture threshold
TextLens == {0, 20, 21, 50}
Null == "null"
NoData == -1
SelectedLen == 5
MaxProbes == 2
MaxRaw == 3

\* textContent as a sequence of tokens: white space, the text of an action
\* button, any other word
RawTokens == {" ", "Copy", "w"}
RECURSIVE SeqsUpTo(_, _)
SeqsUpTo(S, k) ==
  IF k = 0 THEN {<<>>}
  ELSE LET shorter == SeqsUpTo(S, k - 1)
       IN shorter \cup {Append(s, x) : s \in shorter, x \in S}
\* the probed element: whether the content selector matches inside it, and
\* the textContent of the content element (of the element itself if none)
Probes == [hasContent : BOOLEAN, raw : SeqsUpTo(RawTokens, MaxRaw)]

\* scheme and host of the pages the profiles are declared for, of an unrelated
\* page, and of a host that merely begins like a declared one
Hosts ==
  {<<"https://chat.openai.com">>, <<"https://chatgpt.com">>,
   <<"https://gemini.google.com">>, <<"https://bard.google.com">>,
   <<"https://claude.ai">>, <<"https://example.com">>,
   <<"https://chatgpt.com", "pany.com">>}
Tails == {<<>>, <<"c">>} \cup {<<"?u=">> \o h : h \in Hosts}
Urls == {h \o <<"/">> \o tl : h \in Hosts, tl \in Tails}

\* ------------------------------------------------------- program constants
CaptureThreshold == 20
MinCompleteLen == 3
Retries == 1

\* ---------------------------------------------------------------- profiles
\* A URL and a URL pattern are sequences of tokens whose concatenation is the
\* string; "/" and "*" are tokens of their own.
openaiAdapter ==
  [platform |-> "openai", hasStreamingResponse |-> TRUE, isDynamicContent |-> TRUE,
   customComplete |-> TRUE, hasLoadingSelector |-> TRUE, customExtract |-> "content",
   urlPatterns |-> <<<<"https://chat.openai.com", "/", "*">>,
                   <<"https://chatgpt.com", "/", "*">>>>]
geminiAdapter ==
  [platform |-> "gemini", hasStreamingResponse |-> TRUE, isDynamicContent |-> TRUE,
   customComplete |-> TRUE, hasLoadingSelector |-> TRUE, customExtract |-> "content",
   urlPatterns |-> <<<<"https://gemini.google.com", "/", "*">>,
                   <<"https://bard.google.com", "/", "*">>>>]
claudeAdapter ==
  [platform |-> "claude", hasStreamingResponse |-> TRUE, isDynamicContent |-> TRUE,
   customComplete |-> TRUE, hasLoadingSelector |-> TRUE, customExtract |-> "content",
   urlPatterns |-> <<<<"https://claude.ai", "/", "*">>>>]
genericAdapter ==
  [platform |-> "other", hasStreamingResponse |-> FALSE, isDynamicContent |-> TRUE,
   customComplete |-> FALSE, hasLoadingSelector |-> TRUE, customExtract |-> "element",
   urlPatterns |-> <<<<"*">>>>]
\* a profile that sets none of the optional config functions
plainAdapter ==
  [platform |-> "other", hasStreamingResponse |-> TRUE, isDynamicContent |-> TRUE,
   customComplete |-> FALSE, hasLoadingSelector |-> TRUE, customExtract |-> "none",
   urlPatterns |-> <<<<"*">>>>]

\* what the PlatformAdapter type admits for the fields the completion
\* evaluation reads: the streaming flag, an optional custom rule, an optional
\* loading-indicator selector
AnyProfiles ==
  {[plainAdapter EXCEPT !.hasStreamingResponse = s, !.customComplete = cc,
                        !.hasLoadingSelector = ls] :
     s \in BOOLEAN, cc \in BOOLEAN, ls \in BOOLEAN}

\* claude before openai
platformAdapters_ClaudeFirst ==
  <<claudeAdapter, geminiAdapter, openaiAdapter, genericAdapter>>

platformAdapters == <<openaiAdapter, geminiAdapter, claudeAdapter, genericAdapter>>
\* The gemini and claude profiles carry the same flags as the openai one, so
\* the pipeline is run under one streaming and one non-streaming profile.
Profiles == {openaiAdapter, genericAdapter}

VARIABLES
  adapter,            \* the resolved platform profile
  useShadowDOM,       \* ShadowDOMRenderer.isSupported()
  \* --- the page
  containerPresent,   \* conversationContainer selector matches
  inDoc,              \* message elements in the document
  text,               \* length of the text the extractor yields for the node
  loading,            \* an element matched by the completion rule is in the node
  bar,                \* the node has an action bar
  \* --- written on the element by the controller
  complete,           \* data-contexus-complete: "none" | "true" | "false"
  ready,              \* data-contexus-capture-ready = 'true'
  data,               \* __contextusCaptureData.text (length), NoData if unset
  buttons,            \* affordances inside the node
  mounted,            \* the Shadow-DOM React root of the affordance is mounted
  \* --- ContentManager
  started,            \* init() got past waitForPageStability
  isInitialized,
  observer,           \* this.observer is non-null (and connected)
  leaked,             \* connected primary observers no longer referenced
  processedMessages,
  \* --- scheduled callbacks
  setupWaiting,       \* setupObserver calls suspended in waitForContentLoad
  retryTimers,        \* pending 2 s container-retry timers
  navTimers,          \* pending 100 ms navigation timers
  reinitTimers,       \* pending 500 ms re-initialisation timers
  queue,              \* mutation records not yet delivered
  \* --- history
  prep,               \* runs of prepareMessageForCapture per node, this generation
  burstResets,        \* handleNavigation runs since the current burst began
  lastOp,             \* right after a scan or a reset: "scan", "reset"; right after
                      \* a callback: the type of the last record it handled
  \* --- affordance activation and messaging
  isLoading,          \* ShadowCaptureButton state
  pointerNone,        \* direct-DOM button style.pointerEvents = 'none'
  calls,              \* capture calls in flight, each a sendMessage position
  saveSent,           \* SAVE_SNIPPET messages sent per node
  feedback,
  lateResponses,      \* answers still to come for attempts that timed out
  lastSave,           \* result of capture() in the handler that finished last
  selection,          \* length of the text selected on the page, 0 if none
  sentContent,        \* content of the last SAVE_SNIPPET payload
  \* --- exceptions
  malformed,          \* nodes for which completion evaluation / extraction throws
  escaped,            \* the last mutation callback ended with an uncaught exception
  dropped,            \* records of the last batch that were never handled
  renderBroken,       \* the renderer throws (attachShadow, createRoot, render)
  \* --- container replacement and the body observer (watchdog)
  dogsCur,            \* connected body observers whose closure holds the current container
  dogsOld,            \* connected body observers whose closure holds a replaced container
  stale,              \* the primary observer is attached to a replaced container
  staleEntries,       \* processedMessages holds elements of a replaced container
  \* --- probes of the pure functions
  url,                \* window.location.href, as a sequence of tokens
  resolved,           \* platform returned by the last getCurrentAdapter call
  probe,              \* the probed element: its content element and raw text
  extracted,          \* texts returned by the extractions since the probe last changed
  evaluated,          \* results of the isMessageComplete calls since the node last changed
  \* --- the builder store
  elements,           \* builder entries: [id, element, slotAssignments]
  selectedTemplate,   \* the selected template element, or Null
  isDirty,
  uuids               \* number of ids uuidv4 has handed out

domVars == <<containerPresent, inDoc, text, loading, bar>>
markVars == <<complete, ready, data, buttons, mounted>>
ctlVars == <<started, isInitialized, observer, leaked, processedMessages>>
timerVars == <<setupWaiting, retryTimers, navTimers, reinitTimers>>
histVars == <<prep, burstResets>>
capVars == <<isLoading, pointerNone, calls, saveSent, feedback, lateResponses, lastSave,
             selection, sentContent>>
faultVars == <<malformed, escaped, dropped, renderBroken>>
dogVars == <<dogsCur, dogsOld, stale, staleEntries>>
pureVars == <<url, resolved, probe, extracted, evaluated>>
storeVars == <<elements, selectedTemplate, isDirty, uuids>>
vars == <<adapter, useShadowDOM, domVars, markVars, ctlVars, timerVars, queue,
          histVars, lastOp, capVars, faultVars, dogVars, pureVars, storeVars>>

Inc(x, max) == IF x < max THEN x + 1 ELSE max

\* The controller-written part of the state, as one value the handlers map.
\* thrown: an exception is propagating out of the handler; rest: the records
\* of the batch that were not reached because of it.
Ctl ==
  [processed |-> processedMessages, complete |-> complete, ready |-> ready,
   data |-> data, buttons |-> buttons, mounted |-> mounted, prep |-> prep,
   thrown |-> FALSE, rest |-> 0]

SetCtl(c) ==
  /\ processedMessages' = c.processed
  /\ complete' = c.complete
  /\ ready' = c.ready
  /\ data' = c.data
  /\ buttons' = c.buttons
  /\ mounted' = c.mounted
  /\ prep' = c.prep

\* ------------------------------------------------------------ adapters/utils
extractMessageText(n) == text[n]

isMessageComplete(n) ==
  IF adapter.customComplete THEN ~loading[n]
  ELSE IF ~adapter.hasStreamingResponse THEN TRUE
  ELSE IF adapter.hasLoadingSelector /\ loading[n] THEN FALSE
  ELSE IF extractMessageText(n) < MinCompleteLen THEN FALSE
  ELSE TRUE

BoolStr(b) == IF b THEN "true" ELSE "false"

\* isMessageComplete(element) / extractMessageText(element) throw
throws(n) == n \in malformed

\* String.prototype.trim
RECURSIVE trimStart(_)
trimStart(s) == IF s # <<>> /\ Head(s) = " " THEN trimStart(Tail(s)) ELSE s

RECURSIVE trimEnd(_)
trimEnd(s) ==
  IF s # <<>> /\ s[Len(s)] = " " THEN trimEnd(SubSeq(s, 1, Len(s) - 1)) ELSE s

trim(s) == trimEnd(trimStart(s))

\* text.replace(/\s+/g, ' ')
RECURSIVE normalizeWhitespace(_)
normalizeWhitespace(s) ==
  IF s = <<>> THEN s
  ELSE IF Head(s) = " " THEN <<" ">> \o normalizeWhitespace(trimStart(s))
  ELSE <<Head(s)>> \o normalizeWhitespace(Tail(s))

\* text.replace(/^(Copy|Copied|Edit|Delete)\s*/, '')
removeLeadingAction(s) ==
  IF s # <<>> /\ Head(s) = "Copy" THEN trimStart(Tail(s)) ELSE s

\* text.replace(/\s*(Copy|Copied|Edit|Delete)\s*$/, '')
removeTrailingAction(s) ==
  LET e == trimEnd(s)
  IN IF e # <<>> /\ e[Len(e)] = "Copy" THEN trimEnd(SubSeq(e, 1, Len(e) - 1)) ELSE s

\* returns '' on its second call for the same element
extractMessageTextFrom_Sticky(a, el) ==
  IF Len(extracted) > 0 THEN <<>> ELSE trim(el.raw)

\* extractMessageText(element, adapter) on the text itself
extractMessageTextFrom(a, el) ==
  IF a.customExtract = "content" THEN (IF el.hasContent THEN trim(el.raw) ELSE <<>>)
  ELSE IF a.customExtract = "element" THEN trim(el.raw)
  ELSE IF ~el.hasContent THEN trim(el.raw)
  ELSE removeTrailingAction(removeLeadingAction(normalizeWhitespace(trim(el.raw))))

\* String.prototype.replace(needle, ''): the first occurrence is removed
RECURSIVE replaceFirst(_, _)
replaceFirst(s, needle) ==
  IF Len(s) < Len(needle) THEN s
  ELSE IF SubSeq(s, 1, Len(needle)) = needle THEN SubSeq(s, Len(needle) + 1, Len(s))
  ELSE <<Head(s)>> \o replaceFirst(Tail(s), needle)

\* String.prototype.includes
includes(s, needle) ==
  \E i \in 0..(Len(s) - Len(needle)) : SubSeq(s, i + 1, i + Len(needle)) = needle

urlMatches(a, currentUrl) ==
  \E k \in 1..Len(a.urlPatterns) :
    LET pattern == a.urlPatterns[k]
    IN /\ pattern # <<"*">>
       /\ includes(currentUrl, replaceFirst(replaceFirst(pattern, <<"/", "*">>), <<"*">>))

\* Array.prototype.find over platformAdapters, generic as the fallback
getCurrentAdapter(currentUrl) ==
  LET hits == {i \in 1..Len(platformAdapters) : urlMatches(platformAdapters[i], currentUrl)}
  IN IF hits = {} THEN genericAdapter
     ELSE platformAdapters[CHOOSE i \in hits : \A j \in hits : i <= j]

\* ------------------------------------------------------------ ContentManager
createMessageData(n) == extractMessageText(n)

prepareMessageForCapture(c, n) ==
  [c EXCEPT !.ready[n] = TRUE,
            !.data[n] = createMessageData(n),
            !.prep[n] = Inc(@, MaxPrepare)]

\* both render helpers are one try block each: a throw of the renderer is
\* caught before anything is inserted and false is returned
renderShadowDOMButton(c, n) ==
  IF renderBroken THEN c ELSE
  [c EXCEPT !.buttons[n] = Inc(@, MaxButtons), !.mounted[n] = TRUE]

\* CaptureButtonRenderer.render throws when the action bar already holds a
\* button; renderRegularButton catches it and returns false.
renderRegularButton(c, n) ==
  IF renderBroken \/ c.buttons[n] > 0 THEN c
  ELSE [c EXCEPT !.buttons[n] = Inc(@, MaxButtons)]

\* without the duplicate check on the message element
renderCaptureButton_NoGuard(c, n) ==
  IF ~bar[n] THEN c
  ELSE IF useShadowDOM THEN renderShadowDOMButton(c, n)
  ELSE renderRegularButton(c, n)

renderCaptureButton(c, n) ==
  IF c.buttons[n] > 0 THEN c
  ELSE IF ~bar[n] THEN c
  ELSE IF useShadowDOM THEN renderShadowDOMButton(c, n)
  ELSE renderRegularButton(c, n)

\* prepares every substantial message, complete or not
processMessage_NoCompleteCheck(c, n) ==
  IF n \in c.processed THEN c
  ELSE IF throws(n) THEN c
  ELSE LET messageText == extractMessageText(n)
           isComplete == isMessageComplete(n)
           c1 == [c EXCEPT !.complete[n] = BoolStr(isComplete),
                           !.processed = @ \cup {n}]
       IN IF messageText > CaptureThreshold
          THEN prepareMessageForCapture(c1, n)
          ELSE c1

\* the body is one try block: a throw of the extraction (its first
\* statement after the registry test) is caught and false is returned
processMessage(c, n) ==
  IF n \in c.processed THEN c
  ELSE IF throws(n) THEN c
  ELSE LET messageText == extractMessageText(n)
           isComplete == isMessageComplete(n)
           c1 == [c EXCEPT !.complete[n] = BoolStr(isComplete),
                           !.processed = @ \cup {n}]
       IN IF isComplete /\ messageText > CaptureThreshold
          THEN prepareMessageForCapture(c1, n)
          ELSE c1

\* takes the mark and the snapshot back when no affordance could be rendered
processNewMessage_RollBack(c, n) ==
  LET processed == n \in c.processed \/ ~throws(n)
      c1 == processMessage(c, n)
      c2 == IF processed /\ c1.ready[n] THEN renderCaptureButton(c1, n) ELSE c1
  IN IF c2.buttons[n] = 0
     THEN [c2 EXCEPT !.ready[n] = FALSE, !.data[n] = NoData]
     ELSE c2

processNewMessage(c, n) ==
  LET processed == n \in c.processed \/ ~throws(n)
      c1 == processMessage(c, n)
  IN IF processed /\ c1.ready[n] THEN renderCaptureButton(c1, n) ELSE c1

\* prepares a text of exactly the threshold length as well
handleStreamingUpdate_AtLeast(c, n) ==
  IF throws(n) THEN [c EXCEPT !.thrown = TRUE] ELSE
  LET wasComplete == c.complete[n] = "true"
      isComplete == isMessageComplete(n)
      c1 == [c EXCEPT !.complete[n] = BoolStr(isComplete)]
  IN IF isComplete /\ ~wasComplete /\ extractMessageText(n) >= CaptureThreshold
     THEN renderCaptureButton(prepareMessageForCapture(c1, n), n)
     ELSE c1

\* no try block here nor in handleMutations nor in the observer callback
handleStreamingUpdate(c, n) ==
  IF throws(n) THEN [c EXCEPT !.thrown = TRUE] ELSE
  LET wasComplete == c.complete[n] = "true"
      isComplete == isMessageComplete(n)
      c1 == [c EXCEPT !.complete[n] = BoolStr(isComplete)]
  IN IF isComplete /\ ~wasComplete /\ extractMessageText(n) > CaptureThreshold
     THEN renderCaptureButton(prepareMessageForCapture(c1, n), n)
     ELSE c1

\* takes the capture-ready mark away when the message evaluates incomplete
handleMessageUpdate_Demote(c, n) ==
  IF throws(n) THEN [c EXCEPT !.thrown = TRUE] ELSE
  LET isComplete == isMessageComplete(n)
      wasComplete == c.complete[n] = "true"
      c1 == [c EXCEPT !.complete[n] = BoolStr(isComplete),
                      !.ready[n] = @ /\ isComplete]
  IN IF isComplete /\ ~wasComplete /\ extractMessageText(n) > CaptureThreshold
     THEN renderCaptureButton(prepareMessageForCapture(c1, n), n)
     ELSE c1

handleMessageUpdate(c, n) ==
  IF throws(n) THEN [c EXCEPT !.thrown = TRUE] ELSE
  LET isComplete == isMessageComplete(n)
      wasComplete == c.complete[n] = "true"
      c1 == [c EXCEPT !.complete[n] = BoolStr(isComplete)]
  IN IF isComplete /\ ~wasComplete /\ extractMessageText(n) > CaptureThreshold
     THEN renderCaptureButton(prepareMessageForCapture(c1, n), n)
     ELSE c1

\* walks up from the parent of the target: the target itself is never returned
findParentMessage(m) == IF m.at = "inner" THEN m.node ELSE Null

handleRecord(c, m) ==
  LET c1 == IF m.added THEN processNewMessage(c, m.node) ELSE c
      p == findParentMessage(m)
      c2 == IF m.type = "characterData" /\ adapter.hasStreamingResponse /\ p # Null
            THEN handleStreamingUpdate(c1, p) ELSE c1
  IN IF ~c2.thrown /\ m.type = "attributes" /\ p # Null
     THEN handleMessageUpdate(c2, p) ELSE c2

RECURSIVE handleMutations(_, _)
handleMutations(c, ms) ==
  IF ms = <<>> THEN c
  ELSE LET c1 == handleRecord(c, Head(ms))
       IN IF c1.thrown THEN [c1 EXCEPT !.rest = Len(Tail(ms))]
          ELSE handleMutations(c1, Tail(ms))

\* the observer is attached without scanning what is already there
processExistingMessages_Skip(c, S) == c

RECURSIVE processExistingMessages(_, _)
processExistingMessages(c, S) ==
  IF S = {} THEN c
  ELSE LET n == CHOOSE x \in S : TRUE
       IN processExistingMessages(processNewMessage(c, n), S \ {n})


\* ---------------------------------------------------------------- Init
IdleCapture ==
  /\ isLoading = [n \in Nodes |-> FALSE]
  /\ pointerNone = [n \in Nodes |-> FALSE]
  /\ calls = <<>>
  /\ saveSent = [n \in Nodes |-> 0]
  /\ feedback = [n \in Nodes |-> "none"]
  /\ lateResponses = 0
  /\ lastSave = [n \in Nodes |-> "none"]
  /\ selection = 0
  /\ sentContent = NoData

NoFault ==
  /\ malformed = {}
  /\ escaped = FALSE
  /\ dropped = 0
  /\ renderBroken = FALSE

IdleStore ==
  /\ elements = <<>>
  /\ selectedTemplate = Null
  /\ isDirty = FALSE
  /\ uuids = 0

IdlePure ==
  /\ url = <<>>
  /\ resolved = <<>>
  /\ probe = <<>>
  /\ extracted = <<>>
  /\ evaluated = <<>>

\* State after the constructor: init() is suspended in waitForPageStability.
\* The page is in any state: no container yet, or a container with messages
\* already rendered.
Init ==
  /\ adapter \in Profiles
  /\ useShadowDOM \in BOOLEAN
  /\ containerPresent \in BOOLEAN
  /\ inDoc \in SUBSET Nodes
  /\ ~containerPresent => inDoc = {}
  /\ text \in [Nodes -> TextLens]
  /\ loading \in [Nodes -> BOOLEAN]
  /\ bar \in [Nodes -> BOOLEAN]
  /\ \A n \in Nodes \ inDoc : text[n] = 0 /\ ~loading[n] /\ ~bar[n]
  /\ complete = [n \in Nodes |-> "none"]
  /\ ready = [n \in Nodes |-> FALSE]
  /\ data = [n \in Nodes |-> NoData]
  /\ buttons = [n \in Nodes |-> 0]
  /\ mounted = [n \in Nodes |-> FALSE]
  /\ started = FALSE
  /\ isInitialized = FALSE
  /\ observer = FALSE
  /\ leaked = 0
  /\ processedMessages = {}
  /\ setupWaiting = 0
  /\ retryTimers = 0
  /\ navTimers = 0
  /\ reinitTimers = 0
  /\ queue = <<>>
  /\ prep = [n \in Nodes |-> 0]
  /\ burstResets = 0
  /\ lastOp = "none"
  /\ IdleCapture
  /\ NoFault
  /\ IdleStore
  /\ dogsCur = 0
  /\ dogsOld = 0
  /\ stale = FALSE
  /\ staleEntries = FALSE
  /\ IdlePure

\* ------------------------------------------------------------ the controller
\* primary observers that receive the records of the current container
connected == leaked + (IF observer /\ ~stale THEN 1 ELSE 0)

\* setupObserver up to its first await
setupObserverCall ==
  IF isInitialized THEN setupWaiting' = setupWaiting
  ELSE setupWaiting < MaxTimers /\ setupWaiting' = setupWaiting + 1

\* init(): after waitForPageStability, start the observer and install the
\* navigation listener
InitResume ==
  /\ ~started
  /\ started' = TRUE
  /\ setupObserverCall
  /\ lastOp' = "none"
  /\ UNCHANGED <<adapter, useShadowDOM, domVars, markVars, isInitialized, observer,
                 leaked, processedMessages, retryTimers, navTimers, reinitTimers,
                 queue, histVars, capVars,
                 faultVars, dogVars, pureVars, storeVars>>

\* setupObserver after waitForContentLoad, container missing: retry in 2 s
SetupObserverRetry ==
  /\ setupWaiting > 0
  /\ queue = <<>>
  /\ ~containerPresent
  /\ retryTimers < MaxTimers
  /\ setupWaiting' = setupWaiting - 1
  /\ retryTimers' = retryTimers + 1
  /\ lastOp' = "none"
  /\ UNCHANGED <<adapter, useShadowDOM, domVars, markVars, ctlVars, navTimers,
                 reinitTimers, queue, prep, burstResets, capVars,
                 faultVars, dogVars, pureVars, storeVars>>

\* setupObserver after waitForContentLoad, container found: initial scan, then
\* a new primary observer is created and connected
SetupObserverAttach ==
  /\ setupWaiting > 0
  /\ queue = <<>>
  /\ containerPresent
  /\ setupWaiting' = setupWaiting - 1
  /\ SetCtl(processExistingMessages(Ctl, inDoc))
  /\ leaked' = IF observer /\ ~stale THEN Inc(leaked, MaxLeaked) ELSE leaked
  /\ observer' = TRUE
  /\ stale' = FALSE
  /\ isInitialized' = TRUE
  /\ dogsCur' = IF adapter.isDynamicContent THEN Inc(dogsCur, MaxDogs) ELSE dogsCur
  /\ lastOp' = "scan"
  /\ UNCHANGED <<adapter, useShadowDOM, domVars, started, retryTimers, navTimers,
                 reinitTimers, queue, burstResets, capVars, faultVars, dogsOld,
                 staleEntries, pureVars, storeVars>>

RetryTimerFire ==
  /\ retryTimers > 0
  /\ queue = <<>>
  /\ retryTimers' = retryTimers - 1
  /\ setupObserverCall
  /\ lastOp' = "none"
  /\ UNCHANGED <<adapter, useShadowDOM, domVars, markVars, ctlVars, navTimers,
                 reinitTimers, queue, histVars, capVars,
                 faultVars, dogVars, pureVars, storeVars>>

\* history.pushState / replaceState / popstate: setTimeout(handleNavigation, 100).
\* A signal raised inside a task that also mutated the page only schedules the
\* timer, so it is taken after that task's records are delivered.
NavSignal ==
  /\ started
  /\ queue = <<>>
  /\ navTimers < MaxTimers
  /\ navTimers' = navTimers + 1
  /\ burstResets' = IF navTimers = 0 THEN 0 ELSE burstResets
  /\ lastOp' = "none"
  /\ UNCHANGED <<adapter, useShadowDOM, domVars, markVars, ctlVars, setupWaiting,
                 retryTimers, reinitTimers, queue, prep, capVars,
                 faultVars, dogVars, pureVars, storeVars>>

\* a navigation while no earlier navigation or start is still in progress
QuietNavSignal ==
  /\ navTimers = 0
  /\ reinitTimers = 0
  /\ setupWaiting = 0
  /\ retryTimers = 0
  /\ NavSignal

\* a 100 ms navigation timer fires
handleNavigation ==
  /\ navTimers > 0
  /\ queue = <<>>
  /\ reinitTimers < MaxTimers
  /\ navTimers' = navTimers - 1
  /\ observer' = FALSE
  /\ stale' = FALSE
  /\ mounted' = [n \in Nodes |-> FALSE]
  /\ isInitialized' = FALSE
  /\ processedMessages' = {}
  /\ staleEntries' = FALSE
  /\ prep' = [n \in Nodes |-> 0]
  /\ reinitTimers' = reinitTimers + 1
  /\ burstResets' = Inc(burstResets, MaxResets)
  /\ lastOp' = "reset"
  /\ UNCHANGED <<adapter, useShadowDOM, domVars, complete, ready, data, buttons,
                 started, leaked, setupWaiting, retryTimers, queue, capVars, faultVars,
                 dogsCur, dogsOld, pureVars, storeVars>>

ReinitTimerFire ==
  /\ reinitTimers > 0
  /\ queue = <<>>
  /\ reinitTimers' = reinitTimers - 1
  /\ setupObserverCall
  /\ lastOp' = "none"
  /\ UNCHANGED <<adapter, useShadowDOM, domVars, markVars, ctlVars, retryTimers,
                 navTimers, queue, histVars, capVars,
                 faultVars, dogVars, pureVars, storeVars>>

\* the MutationObserver callback(s): every connected primary observer is
\* handed the records of the task that just ended
Record(t, n, add, pos, w) ==
  [type |-> t, node |-> n, added |-> add, at |-> pos, what |-> w]

\* What the controller's writes of one callback put into the record queue of
\* its connected observer.  setAttribute of data-contexus-* is outside the
\* attributeFilter; appendChild of an affordance into the action bar of a
\* message is a childList record whose added node is no message.
ownWrites(c) ==
  IF connected > 0 /\ \E n \in Nodes : c.buttons[n] > buttons[n]
  THEN <<Record("childList", CHOOSE n \in Nodes : c.buttons[n] > buttons[n],
                FALSE, "inner", "affordance")>>
  ELSE <<>>

\* own = TRUE: the records that the writes of the callback produce are queued
deliver(own) ==
  /\ LET c1 == handleMutations(Ctl, queue)
         c2 == IF connected > 1
               THEN handleMutations([c1 EXCEPT !.thrown = FALSE, !.rest = 0], queue)
               ELSE c1
     IN /\ SetCtl(c2)
        /\ escaped' = (c1.thrown \/ c2.thrown)
        /\ dropped' = c2.rest
        /\ queue' = IF own THEN ownWrites(c2) ELSE <<>>
  /\ lastOp' = queue[Len(queue)].type
  /\ UNCHANGED <<adapter, useShadowDOM, domVars, started, isInitialized, observer,
                 leaked, timerVars, burstResets, capVars, malformed, renderBroken,
                 dogVars, pureVars, storeVars>>

Callback ==
  /\ queue # <<>>
  /\ queue[1].type # "body"
  /\ deliver(FALSE)

CallbackOwnWrites ==
  /\ queue # <<>>
  /\ queue[1].type # "body"
  /\ deliver(TRUE)

\* ------------------------------------------------------------------ the page

\* a host mutation is recorded when a primary observer is connected
Observe(m) ==
  /\ connected > 0 => Len(queue) < MaxBatch
  /\ queue' = IF connected > 0 THEN Append(queue, m) ELSE queue
  /\ lastOp' = "none"

HostFrame ==
  UNCHANGED <<adapter, useShadowDOM, markVars, ctlVars, timerVars, histVars, capVars,
                 faultVars, dogVars, pureVars, storeVars>>

ContainerAppears ==
  /\ ~containerPresent
  /\ containerPresent' = TRUE
  /\ lastOp' = "none"
  /\ UNCHANGED <<inDoc, text, loading, bar, queue>>
  /\ HostFrame

AddMessage(n) ==
  /\ containerPresent
  /\ n \notin inDoc
  /\ inDoc' = inDoc \cup {n}
  /\ \E len \in TextLens : text' = [text EXCEPT ![n] = len]
  /\ \E ld \in BOOLEAN : loading' = [loading EXCEPT ![n] = ld]
  /\ \E b \in BOOLEAN : bar' = [bar EXCEPT ![n] = b]
  /\ Observe(Record("childList", n, TRUE, "self", "message"))
  /\ UNCHANGED containerPresent
  /\ HostFrame

\* the element is re-inserted (moved), or a wrapper holding it is added
MoveMessage(n) ==
  /\ n \in inDoc
  /\ Observe(Record("childList", n, TRUE, "self", "message"))
  /\ UNCHANGED domVars
  /\ HostFrame

SetText(n) ==
  /\ n \in inDoc
  /\ \E len \in TextLens \ {text[n]} : text' = [text EXCEPT ![n] = len]
  /\ Observe(Record("characterData", n, FALSE, "inner", "text"))
  /\ UNCHANGED <<containerPresent, inDoc, loading, bar>>
  /\ HostFrame

\* the indicator element is inserted or removed (child list), or an element
\* inside the message gains or loses the class the rule matches (attributes)
SetIndicator(n, via) ==
  /\ n \in inDoc
  /\ loading' = [loading EXCEPT ![n] = ~loading[n]]
  /\ Observe(Record(via, n, FALSE, "inner",
                    IF loading[n] THEN "indicatorOff" ELSE "indicatorOn"))
  /\ UNCHANGED <<containerPresent, inDoc, text, bar>>
  /\ HostFrame

AddActionBar(n) ==
  /\ n \in inDoc
  /\ ~bar[n]
  /\ bar' = [bar EXCEPT ![n] = TRUE]
  /\ Observe(Record("childList", n, FALSE, "inner", "actionBar"))
  /\ UNCHANGED <<containerPresent, inDoc, text, loading>>
  /\ HostFrame

\* a whitelisted attribute of the message element itself changes
SetClassSelf(n) ==
  /\ n \in inDoc
  /\ Observe(Record("attributes", n, FALSE, "self", "class"))
  /\ UNCHANGED domVars
  /\ HostFrame

\* showSuccessFeedback adds the feedback class to the direct-DOM button, its
\* 500 ms timer removes it: a class mutation inside the message
AnimateAffordance(n) ==
  /\ ~useShadowDOM
  /\ n \in inDoc
  /\ buttons[n] > 0
  /\ feedback' = [feedback EXCEPT ![n] = IF @ = "none" THEN "success" ELSE "none"]
  /\ Observe(Record("attributes", n, FALSE, "inner", "feedback"))
  /\ UNCHANGED <<adapter, useShadowDOM, domVars, markVars, ctlVars, timerVars,
                 histVars, isLoading, pointerNone, calls, saveSent, lateResponses,
                 lastSave, selection, sentContent, faultVars, dogVars, pureVars, storeVars>>

\* the renderer starts or stops throwing
BreakRenderer ==
  /\ renderBroken' = ~renderBroken
  /\ lastOp' = "none"
  /\ UNCHANGED <<adapter, useShadowDOM, domVars, markVars, ctlVars, timerVars, queue,
                 histVars, capVars, malformed, escaped, dropped, dogVars, pureVars, storeVars>>

\* The page replaces the conversation container by a new element that matches
\* the container selector: the new container is the added node itself, or it
\* is nested in the added node.  The old container leaves the document with
\* its messages (a node name now stands for an element of the new container,
\* not inserted yet); the registry keeps the old elements.  Observers attached
\* to the old container stay connected to it and receive nothing any more.
ReplaceContainer(how) ==
  /\ containerPresent
  /\ queue = <<>>
  /\ inDoc' = {}
  /\ text' = [n \in Nodes |-> 0]
  /\ loading' = [n \in Nodes |-> FALSE]
  /\ bar' = [n \in Nodes |-> FALSE]
  /\ complete' = [n \in Nodes |-> "none"]
  /\ ready' = [n \in Nodes |-> FALSE]
  /\ data' = [n \in Nodes |-> NoData]
  /\ buttons' = [n \in Nodes |-> 0]
  /\ mounted' = [n \in Nodes |-> FALSE]
  /\ prep' = [n \in Nodes |-> 0]
  /\ malformed' = {}
  /\ staleEntries' = (staleEntries \/ processedMessages # {})
  /\ processedMessages' = {}
  /\ stale' = observer
  /\ leaked' = 0
  /\ dogsOld' = IF dogsOld + dogsCur < MaxDogs THEN dogsOld + dogsCur ELSE MaxDogs
  /\ dogsCur' = 0
  /\ queue' = IF dogsOld + dogsCur > 0
              THEN <<Record("body", Null, TRUE, how, "container")>>
              ELSE queue
  /\ lastOp' = "none"
  /\ UNCHANGED <<adapter, useShadowDOM, containerPresent, started, isInitialized,
                 observer, timerVars, burstResets, capVars, escaped, dropped,
                 renderBroken, pureVars, storeVars>>

\* The callbacks of the body observers for the record of a replacement.
\* node.querySelector(containerSelector) searches the descendants of the
\* added node, not the node itself.  Every body observer whose closure holds
\* another element than the one found disconnects the primary observer and
\* calls setupObserver.
WatchdogCallback ==
  /\ queue # <<>>
  /\ queue[1].type = "body"
  /\ queue' = <<>>
  /\ LET found == queue[1].at = "nested"
         k == IF found THEN dogsOld ELSE 0
     IN IF k > 0
        THEN /\ setupWaiting + k <= MaxTimers
             /\ setupWaiting' = setupWaiting + k
             /\ observer' = FALSE
             /\ stale' = FALSE
             /\ isInitialized' = FALSE
             /\ lastOp' = "restart"
        ELSE /\ lastOp' = "body"
             /\ UNCHANGED <<setupWaiting, observer, stale, isInitialized>>
  /\ UNCHANGED <<adapter, useShadowDOM, domVars, markVars, started, leaked,
                 processedMessages, retryTimers, navTimers, reinitTimers, histVars,
                 capVars, faultVars, dogsCur, dogsOld, staleEntries, pureVars, storeVars>>

\* the page leaves the element in a shape on which the completion rule or
\* the extractor throws, or repairs it
Malform(n) ==
  /\ n \in inDoc
  /\ malformed' = IF n \in malformed THEN malformed \ {n} ELSE malformed \cup {n}
  /\ lastOp' = "none"
  /\ UNCHANGED <<adapter, useShadowDOM, domVars, markVars, ctlVars, timerVars, queue,
                 histVars, capVars, escaped, dropped, renderBroken, dogVars, pureVars, storeVars>>

\* ------------------------------------------------------------ specifications
\* The message lifecycle: the page mutates freely; a navigation happens only
\* when the previous start has settled.
Next ==
  \/ InitResume
  \/ SetupObserverRetry
  \/ SetupObserverAttach
  \/ RetryTimerFire
  \/ QuietNavSignal
  \/ handleNavigation
  \/ ReinitTimerFire
  \/ Callback
  \/ ContainerAppears
  \/ \E n \in Nodes : AddMessage(n)
  \/ \E n \in Nodes : MoveMessage(n)
  \/ \E n \in Nodes : SetText(n)
  \/ \E n \in Nodes : SetIndicator(n, "childList")
  \/ \E n \in Nodes : SetIndicator(n, "attributes")
  \/ \E n \in Nodes : AddActionBar(n)
  \/ \E n \in Nodes : SetClassSelf(n)

Spec == Init /\ [][Next]_vars

\* ------------------------------------------------- probes of pure functions
\* the controller not started, nothing scheduled, nothing captured
QuietController ==
  /\ complete = [n \in Nodes |-> "none"]
  /\ ready = [n \in Nodes |-> FALSE]
  /\ data = [n \in Nodes |-> NoData]
  /\ buttons = [n \in Nodes |-> 0]
  /\ mounted = [n \in Nodes |-> FALSE]
  /\ started = FALSE
  /\ isInitialized = FALSE
  /\ observer = FALSE
  /\ leaked = 0
  /\ processedMessages = {}
  /\ setupWaiting = 0
  /\ retryTimers = 0
  /\ navTimers = 0
  /\ reinitTimers = 0
  /\ queue = <<>>
  /\ prep = [n \in Nodes |-> 0]
  /\ burstResets = 0
  /\ lastOp = "none"
  /\ IdleCapture
  /\ NoFault
  /\ IdleStore
  /\ dogsCur = 0
  /\ dogsOld = 0
  /\ stale = FALSE
  /\ staleEntries = FALSE

EmptyPage ==
  /\ containerPresent = FALSE
  /\ inDoc = {}
  /\ text = [n \in Nodes |-> 0]
  /\ loading = [n \in Nodes |-> FALSE]
  /\ bar = [n \in Nodes |-> FALSE]

ProbeFrame ==
  UNCHANGED <<adapter, useShadowDOM, domVars, markVars, ctlVars, timerVars, queue,
              histVars, lastOp, capVars, faultVars, dogVars, storeVars>>

\* a call of getCurrentAdapter()
Resolve ==
  /\ Len(resolved) < MaxProbes
  /\ resolved' = Append(resolved, getCurrentAdapter(url).platform)
  /\ UNCHANGED <<url, probe, extracted, evaluated>>
  /\ ProbeFrame

\* the page moves to another URL
Navigate ==
  /\ \E u \in Urls \ {url} : url' = u
  /\ resolved' = <<>>
  /\ UNCHANGED <<probe, extracted, evaluated>>
  /\ ProbeFrame

InitResolve ==
  /\ adapter = genericAdapter
  /\ useShadowDOM = FALSE
  /\ EmptyPage
  /\ QuietController
  /\ url \in Urls
  /\ resolved = <<>>
  /\ probe = <<>>
  /\ extracted = <<>>
  /\ evaluated = <<>>

NextResolve ==
  \/ Resolve
  \/ Navigate

SpecResolve == InitResolve /\ [][NextResolve]_vars

\* a call of extractMessageText(element, adapter)
Extract ==
  /\ Len(extracted) < MaxProbes
  /\ extracted' = Append(extracted, extractMessageTextFrom(adapter, probe))
  /\ UNCHANGED <<url, resolved, probe, evaluated>>
  /\ ProbeFrame

\* the page changes the element
EditProbe ==
  /\ \E el \in Probes \ {probe} : probe' = el
  /\ extracted' = <<>>
  /\ UNCHANGED <<url, resolved, evaluated>>
  /\ ProbeFrame

InitExtract ==
  /\ adapter \in {openaiAdapter, genericAdapter, plainAdapter}
  /\ useShadowDOM = FALSE
  /\ EmptyPage
  /\ QuietController
  /\ url = <<>>
  /\ resolved = <<>>
  /\ probe \in Probes
  /\ extracted = <<>>
  /\ evaluated = <<>>

NextExtract ==
  \/ Extract
  \/ EditProbe

SpecExtract == InitExtract /\ [][NextExtract]_vars

\* a call of isMessageComplete(element, adapter)
Evaluate(n) ==
  /\ n \in inDoc
  /\ Len(evaluated) < MaxProbes
  /\ evaluated' = Append(evaluated, isMessageComplete(n))
  /\ UNCHANGED <<url, resolved, probe, extracted>>
  /\ ProbeFrame

\* the page changes the text of the message or its loading indicator
TouchNode(n) ==
  /\ n \in inDoc
  /\ \E len \in TextLens, ld \in BOOLEAN :
       /\ <<len, ld>> # <<text[n], loading[n]>>
       /\ text' = [text EXCEPT ![n] = len]
       /\ loading' = [loading EXCEPT ![n] = ld]
  /\ evaluated' = <<>>
  /\ UNCHANGED <<adapter, useShadowDOM, containerPresent, inDoc, bar, markVars, ctlVars,
                 timerVars, queue, histVars, lastOp, capVars, faultVars, dogVars,
                 url, resolved, probe, extracted, storeVars>>

InitComplete ==
  /\ adapter \in AnyProfiles
  /\ useShadowDOM = FALSE
  /\ containerPresent = TRUE
  /\ inDoc = Nodes
  /\ text \in [Nodes -> TextLens]
  /\ loading \in [Nodes -> BOOLEAN]
  /\ bar = [n \in Nodes |-> FALSE]
  /\ QuietController
  /\ IdlePure

NextComplete ==
  \/ \E n \in Nodes : Evaluate(n)
  \/ \E n \in Nodes : TouchNode(n)

SpecComplete == InitComplete /\ [][NextComplete]_vars

\* The message lifecycle on a page whose elements may make evaluation throw.
NextFault ==
  \/ InitResume
  \/ SetupObserverAttach
  \/ Callback
  \/ ContainerAppears
  \/ \E n \in Nodes : AddMessage(n)
  \/ \E n \in Nodes : MoveMessage(n)
  \/ \E n \in Nodes : SetText(n)
  \/ \E n \in Nodes : SetIndicator(n, "childList")
  \/ \E n \in Nodes : SetIndicator(n, "attributes")
  \/ \E n \in Nodes : SetClassSelf(n)
  \/ \E n \in Nodes : Malform(n)

SpecFault == Init /\ [][NextFault]_vars

\* Start, navigation and new messages on a page that also replaces its
\* container.
NextWatchdog ==
  \/ InitResume
  \/ SetupObserverAttach
  \/ QuietNavSignal
  \/ handleNavigation
  \/ ReinitTimerFire
  \/ Callback
  \/ ContainerAppears
  \/ \E n \in Nodes : AddMessage(n)
  \/ ReplaceContainer("self")
  \/ ReplaceContainer("nested")
  \/ WatchdogCallback

SpecWatchdog == Init /\ [][NextWatchdog]_vars

\* The message lifecycle with the records of the controller's own writes.
NextOwnWrites ==
  \/ InitResume
  \/ SetupObserverAttach
  \/ CallbackOwnWrites
  \/ ContainerAppears
  \/ \E n \in Nodes : AddMessage(n)
  \/ \E n \in Nodes : SetText(n)
  \/ \E n \in Nodes : SetIndicator(n, "attributes")
  \/ \E n \in Nodes : SetIndicator(n, "childList")
  \/ \E n \in Nodes : AddActionBar(n)
  \/ \E n \in Nodes : AnimateAffordance(n)

SpecOwnWrites == Init /\ [][NextOwnWrites]_vars

\* The message lifecycle with a renderer that may throw.
NextRender ==
  \/ InitResume
  \/ SetupObserverAttach
  \/ Callback
  \/ ContainerAppears
  \/ \E n \in Nodes : AddMessage(n)
  \/ \E n \in Nodes : SetText(n)
  \/ \E n \in Nodes : SetIndicator(n, "attributes")
  \/ \E n \in Nodes : AddActionBar(n)
  \/ BreakRenderer

SpecRender == Init /\ [][NextRender]_vars

\* ------------------------------ ContentScriptManager of src/content/index.ts
\* adapterUtils.isMessageComplete: every profile of adapters.ts tests for a
\* loading indicator, by its own function or by the loadingIndicator selector
Manager_isMessageComplete(n) == ~loading[n]

Manager_extractMessageText(n) == text[n]

Manager_prepareMessageForCapture(c, n) ==
  [c EXCEPT !.ready[n] = TRUE,
            !.data[n] = Manager_extractMessageText(n),
            !.prep[n] = Inc(@, MaxPrepare)]

Manager_processNewMessage(c, n) ==
  IF n \in c.processed THEN c ELSE
  LET isComplete == Manager_isMessageComplete(n)
      c1 == [c EXCEPT !.processed = @ \cup {n}, !.complete[n] = BoolStr(isComplete)]
  IN IF isComplete /\ Manager_extractMessageText(n) > CaptureThreshold
     THEN Manager_prepareMessageForCapture(c1, n)
     ELSE c1

\* the attribute is written first and read back in the test
Manager_handleStreamingUpdate(c, n) ==
  LET isComplete == Manager_isMessageComplete(n)
      c1 == [c EXCEPT !.complete[n] = BoolStr(isComplete)]
  IN IF isComplete /\ c1.complete[n] # "true"
        /\ Manager_extractMessageText(n) > CaptureThreshold
     THEN Manager_prepareMessageForCapture(c1, n)
     ELSE c1

Manager_handleMessageUpdate(c, n) ==
  LET isComplete == Manager_isMessageComplete(n)
      wasComplete == c.complete[n] = "true"
      c1 == [c EXCEPT !.complete[n] = BoolStr(isComplete)]
  IN IF isComplete /\ ~wasComplete /\ Manager_extractMessageText(n) > CaptureThreshold
     THEN Manager_prepareMessageForCapture(c1, n)
     ELSE c1

Manager_handleRecord(c, m) ==
  LET c1 == IF m.added THEN Manager_processNewMessage(c, m.node) ELSE c
      p == findParentMessage(m)
      c2 == IF m.type = "characterData" /\ adapter.hasStreamingResponse /\ p # Null
            THEN Manager_handleStreamingUpdate(c1, p) ELSE c1
  IN IF m.type = "attributes" /\ p # Null
     THEN Manager_handleMessageUpdate(c2, p) ELSE c2

RECURSIVE Manager_handleMutations(_, _)
Manager_handleMutations(c, ms) ==
  IF ms = <<>> THEN c
  ELSE Manager_handleMutations(Manager_handleRecord(c, Head(ms)), Tail(ms))

RECURSIVE Manager_processExistingMessages(_, _)
Manager_processExistingMessages(c, S) ==
  IF S = {} THEN c
  ELSE LET n == CHOOSE x \in S : TRUE
       IN Manager_processExistingMessages(Manager_processNewMessage(c, n), S \ {n})

\* setupObserver resumes after waitForContentLoad with the container there:
\* initial scan, then the observer is connected
Manager_setupObserver ==
  /\ ~isInitialized
  /\ queue = <<>>
  /\ containerPresent
  /\ SetCtl(Manager_processExistingMessages(Ctl, inDoc))
  /\ observer' = TRUE
  /\ isInitialized' = TRUE
  /\ lastOp' = "scan"
  /\ UNCHANGED <<adapter, useShadowDOM, domVars, started, leaked, timerVars, queue,
                 burstResets, capVars, faultVars, dogVars, pureVars, storeVars>>

Manager_Callback ==
  /\ queue # <<>>
  /\ SetCtl(Manager_handleMutations(Ctl, queue))
  /\ queue' = <<>>
  /\ lastOp' = queue[Len(queue)].type
  /\ UNCHANGED <<adapter, useShadowDOM, domVars, started, isInitialized, observer,
                 leaked, timerVars, burstResets, capVars, faultVars, dogVars,
                 pureVars, storeVars>>

NextManager ==
  \/ Manager_setupObserver
  \/ Manager_Callback
  \/ ContainerAppears
  \/ \E n \in Nodes : AddMessage(n)
  \/ \E n \in Nodes : SetText(n)
  \/ \E n \in Nodes : SetIndicator(n, "attributes")
  \/ \E n \in Nodes : SetIndicator(n, "childList")

SpecManager == Init /\ [][NextManager]_vars

\* ------------------------------------------------- stores/builderStore.ts
noSlots == [s \in Slots |-> Null]

BuilderElement(id, element, slotAssignments) ==
  [id |-> id, element |-> element, slotAssignments |-> slotAssignments]

StoreFrame ==
  UNCHANGED <<adapter, useShadowDOM, domVars, markVars, ctlVars, timerVars, queue,
              histVars, lastOp, capVars, faultVars, dogVars, pureVars>>

addElement(element) ==
  /\ Len(elements) < MaxElements
  /\ uuids < MaxUuids
  /\ uuids' = uuids + 1
  /\ elements' = Append(elements, BuilderElement(uuids + 1, element, noSlots))
  /\ isDirty' = TRUE
  /\ selectedTemplate' = IF element \in Templates THEN element ELSE selectedTemplate
  /\ StoreFrame

removeElement(builderElementId) ==
  /\ elements' = SelectSeq(elements, LAMBDA entry : entry.id # builderElementId)
  /\ isDirty' = TRUE
  /\ UNCHANGED <<selectedTemplate, uuids>>
  /\ StoreFrame

assignSlot(templateId, slotId, element) ==
  /\ elements' = [i \in 1..Len(elements) |->
                    IF elements[i].id # templateId THEN elements[i]
                    ELSE [elements[i] EXCEPT !.slotAssignments[slotId] = element]]
  /\ isDirty' = TRUE
  /\ UNCHANGED <<selectedTemplate, uuids>>
  /\ StoreFrame

unassignSlot(templateId, slotId) ==
  /\ elements' = [i \in 1..Len(elements) |->
                    IF elements[i].id # templateId THEN elements[i]
                    ELSE [elements[i] EXCEPT !.slotAssignments[slotId] = Null]]
  /\ isDirty' = TRUE
  /\ UNCHANGED <<selectedTemplate, uuids>>
  /\ StoreFrame

\* element = Null: called with undefined
setSelectedTemplate(element) ==
  /\ IF element = Null
     THEN UNCHANGED <<elements, uuids>>
     ELSE IF \E i \in 1..Len(elements) : elements[i].element = element
     THEN UNCHANGED <<elements, uuids>>
     ELSE /\ Len(elements) < MaxElements
          /\ uuids < MaxUuids
          /\ uuids' = uuids + 1
          /\ elements' = <<BuilderElement(uuids + 1, element, noSlots)>> \o elements
  /\ selectedTemplate' = element
  /\ isDirty' = TRUE
  /\ StoreFrame

reset ==
  /\ elements' = <<>>
  /\ selectedTemplate' = Null
  /\ isDirty' = FALSE
  /\ UNCHANGED uuids
  /\ StoreFrame

\* resolver(elementId) is the element for the ids in resolvable, else undefined
mapSlotAssignments(assignments, resolvable) ==
  [s \in Slots |-> IF assignments[s] \in resolvable THEN assignments[s] ELSE Null]

\* template = [elementIds, selectedTemplateId, slotAssignments]
hydrateFromTemplate(template, resolvable) ==
  LET kept == SelectSeq(template.elementIds,
                        LAMBDA id : id # template.selectedTemplateId /\ id \in resolvable)
      entries == [i \in 1..Len(kept) |-> BuilderElement(uuids + i, kept[i], noSlots)]
      selected == IF template.selectedTemplateId \in resolvable
                  THEN template.selectedTemplateId ELSE Null
      templateEntry == BuilderElement(uuids + Len(kept) + 1, selected,
                         mapSlotAssignments(template.slotAssignments, resolvable))
      all == IF selected # Null THEN <<templateEntry>> \o entries ELSE entries
  IN /\ Len(all) <= MaxElements
     /\ uuids + Len(all) <= MaxUuids
     /\ uuids' = uuids + Len(all)
     /\ elements' = all
     /\ selectedTemplate' = selected
     /\ isDirty' = FALSE
     /\ StoreFrame

BuilderTemplates ==
  [elementIds : SeqsUpTo(Library, MaxTemplateIds),
   selectedTemplateId : Library \cup {Null},
   slotAssignments : [Slots -> Library \cup {Null}]]

\* PromptEngine.buildTemplatePrompt finds the entry of the selected template
templateElementFound ==
  \E i \in 1..Len(elements) : elements[i].element = selectedTemplate

InitStore ==
  /\ adapter = genericAdapter
  /\ useShadowDOM = FALSE
  /\ EmptyPage
  /\ QuietController
  /\ IdlePure

NextStore ==
  \/ \E element \in Library : addElement(element)
  \/ \E id \in 1..MaxUuids : removeElement(id)
  \/ \E id \in 1..MaxUuids, s \in Slots, element \in Library : assignSlot(id, s, element)
  \/ \E id \in 1..MaxUuids, s \in Slots : unassignSlot(id, s)
  \/ \E element \in Library \cup {Null} : setSelectedTemplate(element)
  \/ reset
  \/ \E template \in BuilderTemplates, resolvable \in SUBSET Library :
       hydrateFromTemplate(template, resolvable)

SpecStore == InitStore /\ [][NextStore]_vars

\* Scheduling of starts, retries and resets: navigation signals arrive in
\* bursts; the page is static apart from the container appearing.
NextNav ==
  \/ InitResume
  \/ SetupObserverRetry
  \/ SetupObserverAttach
  \/ RetryTimerFire
  \/ NavSignal
  \/ handleNavigation
  \/ ReinitTimerFire
  \/ ContainerAppears

SpecNav == Init /\ [][NextNav]_vars

\* Start and container retry only: the event loop runs every scheduled timer.
NextRetry ==
  \/ InitResume
  \/ SetupObserverRetry
  \/ SetupObserverAttach
  \/ RetryTimerFire
  \/ ContainerAppears

SpecRetry ==
  /\ Init
  /\ [][NextRetry]_vars
  /\ WF_vars(InitResume)
  /\ WF_vars(SetupObserverRetry)
  /\ WF_vars(SetupObserverAttach)
  /\ WF_vars(RetryTimerFire)

\* quickCapture(messageElement): capture({text: messageData.text}) when the
\* element carries capture data; the content it saves, NoData if none
quickCapture(n) ==
  IF data[n] # NoData /\ data[n] > 0 THEN data[n] ELSE NoData

\* ------------------------------------------- affordance activation, messaging
\* capture({source: 'auto', fallbackText}): the page selection wins, the
\* snapshot text is the fallback; NoData when there is nothing to save
captureContent(n) ==
  IF selection > 0 THEN selection
  ELSE IF data[n] # NoData /\ data[n] > 0 THEN data[n]
  ELSE NoData

InFlight(n) == {i \in 1..Len(calls) : calls[i].node = n}

RemoveAt(q, i) == [k \in 1..(Len(q) - 1) |-> IF k < i THEN q[k] ELSE q[k + 1]]

\* the click handler of the affordance gets past its guard and calls
\* onCapture: createCaptureHandler -> capture -> saveSnippet -> sendMessage,
\* whose first attempt sends SAVE_SNIPPET
startCapture(n) ==
  LET content == captureContent(n)
  IN IF content = NoData
     THEN \* capture resolves with {success: false}; the handler completes
          /\ feedback' = [feedback EXCEPT ![n] = "success"]
          /\ lastSave' = [lastSave EXCEPT ![n] = "failed"]
          /\ UNCHANGED <<calls, saveSent, sentContent, isLoading, pointerNone>>
     ELSE /\ Len(calls) < MaxCalls
          /\ saveSent[n] < MaxSends
          /\ calls' = Append(calls, [node |-> n, attempt |-> 0, phase |-> "waiting"])
          /\ saveSent' = [saveSent EXCEPT ![n] = @ + 1]
          /\ sentContent' = content
          /\ IF useShadowDOM
             THEN isLoading' = [isLoading EXCEPT ![n] = TRUE] /\ UNCHANGED pointerNone
             ELSE pointerNone' = [pointerNone EXCEPT ![n] = TRUE] /\ UNCHANGED isLoading
          /\ UNCHANGED <<feedback, lastSave>>

CaptureFrame ==
  UNCHANGED <<adapter, useShadowDOM, domVars, markVars, ctlVars, timerVars, queue,
              histVars, lastOp, faultVars, dogVars, pureVars, storeVars>>

\* ShadowCaptureButton.handleCapture: returns at once while isLoading
ActivateShadow(n) ==
  /\ useShadowDOM
  /\ mounted[n]
  /\ ~isLoading[n]
  /\ startCapture(n)
  /\ UNCHANGED <<selection, lateResponses>>
  /\ CaptureFrame

\* CaptureButtonRenderer click handler.  pointer-events: none keeps pointer
\* clicks from reaching the button; a click raised from the keyboard (or by
\* script) on the focused button is still dispatched.  The handler itself
\* tests no flag.
ActivateDirect(n, kind) ==
  /\ ~useShadowDOM
  /\ buttons[n] > 0
  /\ kind = "pointer" => ~pointerNone[n]
  /\ startCapture(n)
  /\ UNCHANGED <<selection, lateResponses>>
  /\ CaptureFrame

\* the handler behind call i completes.  capture resolves with the answer of
\* the save, or with {success: false} when sendMessage threw; it never
\* throws, so both click handlers take their success path, then their
\* finally block
completeHandler(i, result) ==
  LET n == calls[i].node
  IN /\ calls' = RemoveAt(calls, i)
     /\ lastSave' = [lastSave EXCEPT ![n] = result]
     /\ feedback' = [feedback EXCEPT ![n] = "success"]
     /\ isLoading' = [isLoading EXCEPT ![n] = FALSE]
     /\ pointerNone' = [pointerNone EXCEPT ![n] = FALSE]

\* gives up at the first rejected attempt
rejectAttempt_GiveUp(i) == completeHandler(i, "failed")

\* an attempt of sendMessage is rejected: wait retryDelayMs and send again
\* while attempt < retries, else throw lastError (caught by capture)
rejectAttempt(i) ==
  IF calls[i].attempt < Retries
  THEN /\ calls' = [calls EXCEPT ![i].phase = "delay"]
       /\ UNCHANGED <<feedback, isLoading, pointerNone, lastSave>>
  ELSE completeHandler(i, "failed")

\* the background answers attempt i
Respond(i, outcome) ==
  /\ i \in 1..Len(calls)
  /\ calls[i].phase = "waiting"
  /\ IF outcome = "ok" THEN completeHandler(i, "ok") ELSE rejectAttempt(i)
  /\ UNCHANGED <<saveSent, sentContent, selection, lateResponses>>
  /\ CaptureFrame

\* the timeoutMs timer of attempt i fires first; the answer is still to come
Timeout(i) ==
  /\ i \in 1..Len(calls)
  /\ calls[i].phase = "waiting"
  /\ rejectAttempt(i)
  /\ lateResponses' = lateResponses + 1
  /\ UNCHANGED <<saveSent, sentContent, selection>>
  /\ CaptureFrame

\* the answer to an attempt that has timed out arrives: settled is set, so
\* the response callback returns at once
LateResponse ==
  /\ lateResponses > 0
  /\ lateResponses' = lateResponses - 1
  /\ UNCHANGED <<isLoading, pointerNone, calls, saveSent, feedback, selection,
                 sentContent, lastSave>>
  /\ CaptureFrame

\* the retry delay is over: the next attempt sends the message again
RetryDelayElapsed(i) ==
  /\ i \in 1..Len(calls)
  /\ calls[i].phase = "delay"
  /\ saveSent[calls[i].node] < MaxSends
  /\ calls' = [calls EXCEPT ![i].attempt = @ + 1, ![i].phase = "waiting"]
  /\ saveSent' = [saveSent EXCEPT ![calls[i].node] = @ + 1]
  /\ UNCHANGED <<sentContent, feedback, isLoading, pointerNone, selection,
                 lateResponses, lastSave>>
  /\ CaptureFrame

\* the feedback animation ends
FeedbackTimeout(n) ==
  /\ feedback[n] # "none"
  /\ feedback' = [feedback EXCEPT ![n] = "none"]
  /\ UNCHANGED <<isLoading, pointerNone, calls, saveSent, selection, sentContent,
                 lateResponses, lastSave>>
  /\ CaptureFrame

\* the user selects or deselects text somewhere on the page
SelectText ==
  /\ selection' = IF selection = 0 THEN SelectedLen ELSE 0
  /\ UNCHANGED <<isLoading, pointerNone, calls, saveSent, feedback, sentContent,
                 lateResponses, lastSave>>
  /\ CaptureFrame

\* A capture-ready message with its affordance rendered, observer attached.
InitCapture ==
  /\ adapter \in Profiles
  /\ useShadowDOM \in BOOLEAN
  /\ containerPresent = TRUE
  /\ inDoc = Nodes
  /\ text \in [Nodes -> {t \in TextLens : t > CaptureThreshold}]
  /\ loading = [n \in Nodes |-> FALSE]
  /\ bar = [n \in Nodes |-> TRUE]
  /\ complete = [n \in Nodes |-> "true"]
  /\ ready = [n \in Nodes |-> TRUE]
  /\ data = text
  /\ buttons = [n \in Nodes |-> 1]
  /\ mounted = [n \in Nodes |-> useShadowDOM]
  /\ started = TRUE
  /\ isInitialized = TRUE
  /\ observer = TRUE
  /\ leaked = 0
  /\ processedMessages = Nodes
  /\ setupWaiting = 0
  /\ retryTimers = 0
  /\ navTimers = 0
  /\ reinitTimers = 0
  /\ queue = <<>>
  /\ prep = [n \in Nodes |-> 1]
  /\ burstResets = 0
  /\ lastOp = "scan"
  /\ IdleCapture
  /\ NoFault
  /\ IdleStore
  /\ dogsCur = 1
  /\ dogsOld = 0
  /\ stale = FALSE
  /\ staleEntries = FALSE
  /\ IdlePure

NextCapture ==
  \/ \E n \in Nodes : ActivateShadow(n)
  \/ \E n \in Nodes : ActivateDirect(n, "pointer")
  \/ \E n \in Nodes : ActivateDirect(n, "keyboard")
  \/ \E i \in 1..MaxCalls : Respond(i, "ok")
  \/ \E i \in 1..MaxCalls : Respond(i, "error")
  \/ \E i \in 1..MaxCalls : Timeout(i)
  \/ LateResponse
  \/ \E i \in 1..MaxCalls : RetryDelayElapsed(i)
  \/ \E n \in Nodes : FeedbackTimeout(n)
  \/ SelectText

SpecCapture == InitCapture /\ [][NextCapture]_vars

TypeOK ==
  /\ buttons \in [Nodes -> 0..MaxButtons]
  /\ prep \in [Nodes -> 0..MaxPrepare]
  /\ Len(queue) <= MaxBatch

\* ------------------------------------------------------------------- claims

\* C1: once prepareMessageForCapture has run for a tracked node, no later
\* mutation events run it a second time within the same registry generation.
C1_AtMostOnceCapture == \A n \in Nodes : prep[n] <= 1

\* C2: under a streaming profile no step marks a node capture-ready (runs the
\* capture hand-off for it) while its completion rule evaluates false.
C2_CompletenessGating ==
  [][\A n \in Nodes :
       (adapter.hasStreamingResponse /\ (prep'[n] > prep[n] \/ (ready'[n] /\ ~ready[n])))
         => isMessageComplete(n)']_vars

\* a callback handled a character-data record for a tracked node whose text
\* is above the threshold and whose indicator is still there: it is not marked
C2_Witness ==
  \E n \in Nodes :
    /\ adapter.hasStreamingResponse
    /\ lastOp = "characterData"
    /\ n \in processedMessages
    /\ loading[n]
    /\ text[n] > CaptureThreshold
    /\ complete[n] = "false"
    /\ ~ready[n]

\* C3: under a streaming profile, the callback that delivers the removal of
\* the loading indicator of a tracked, not yet capture-ready node whose text
\* exceeds the threshold marks it capture-ready in that same callback, with
\* exactly one hand-off.
C3_PromotedOnIndicatorRemoval ==
  [][\A n \in Nodes :
       ( /\ queue # <<>>
         /\ queue' = <<>>
         /\ adapter.hasStreamingResponse
         /\ n \in processedMessages
         /\ ~ready[n]
         /\ \E i \in 1..Len(queue) : queue[i].node = n /\ queue[i].what = "indicatorOff"
         /\ ~loading[n]
         /\ text[n] > CaptureThreshold )
         => (ready'[n] /\ prep'[n] = 1)]_vars

\* C4: the step that attaches the primary observer has classified every
\* message already in the document; under a non-streaming profile a
\* pre-existing message above the threshold gets exactly one hand-off, in
\* that step.
C4_InitialScan ==
  [][SetupObserverAttach =>
       /\ inDoc \subseteq processedMessages'
       /\ ~adapter.hasStreamingResponse =>
            \A n \in inDoc \ processedMessages :
              text[n] > CaptureThreshold =>
                ready'[n] /\ prep'[n] = 1 /\ data'[n] = text[n]]_vars

C4_Witness ==
  \E n \in Nodes :
    /\ ~adapter.hasStreamingResponse
    /\ lastOp = "scan"
    /\ observer
    /\ n \in processedMessages
    /\ text[n] = 50
    /\ ready[n]
    /\ prep[n] = 1
    /\ data[n] = 50

\* C5: a node that was capture-ready in the previous generation and is scanned
\* again after a reset is capture-ready in the new generation only if it
\* evaluates complete with text above the threshold at the re-scan, and its
\* snapshot is the one taken at the re-scan.
C5_ResetClearsState ==
  [][\A n \in Nodes :
       (SetupObserverAttach /\ n \in inDoc /\ n \notin processedMessages /\ ready[n])
         => (ready'[n] => /\ isMessageComplete(n)
                          /\ text[n] > CaptureThreshold
                          /\ data'[n] = text[n])]_vars

\* C6: navigation signals that are pending together (raised within 100 ms of
\* each other) lead to one run of handleNavigation.
C6_NavigationDebounce == burstResets <= 1

\* C7: while the container selector never matches, retrying stops: from some
\* point on no retry timer is pending and no start attempt is waiting.
C7_BoundedRetry ==
  <>[](containerPresent \/ (started /\ retryTimers = 0 /\ setupWaiting = 0))

\* C10: every message node holds at most one capture affordance.
C10_NoDuplicateAffordance == \A n \in Nodes : buttons[n] <= 1

\* the hand-off ran twice for the node, so rendering was attempted twice
C10_Witness == \E n \in Nodes : buttons[n] = 1 /\ prep[n] = 2

\* C8: SAVE_SNIPPET is sent at most once for a capture-ready record: a failed
\* or timed-out save is not sent again and later activations send nothing.
C8_PersistenceAtMostOnce == \A n \in Nodes : saveSent[n] <= 1

\* C9: at most one capture call per affordance is in flight, with either
\* rendering strategy.
C9_RapidActivationGuard == \A n \in Nodes : Cardinality(InFlight(n)) <= 1

\* C11: an exception thrown while a node of a mutation batch is evaluated does
\* not leave the mutation callback; every record of the batch is handled and
\* the observers stay connected.
C11_ErrorContainment ==
  [][(queue # <<>> /\ queue' = <<>>)
       => (~escaped' /\ dropped' = 0 /\ connected' = connected)]_vars

\* C12: every call of getCurrentAdapter returns openai if an openai pattern
\* matches the URL, else gemini if a gemini pattern matches, else claude if a
\* claude pattern matches, else the generic profile; repeated calls for one
\* URL return the same profile.  A pattern matches when its literal part (the
\* pattern without the trailing "/*") occurs in the URL.
C12_ProfileResolution ==
  LET DeclaredMatch(a) ==
        \E k \in 1..Len(a.urlPatterns) :
          LET p == a.urlPatterns[k]
          IN \E i \in 0..Len(url) :
               /\ i + Len(p) - 2 <= Len(url)
               /\ \A j \in 1..(Len(p) - 2) : url[i + j] = p[j]
  IN \A c \in 1..Len(resolved) :
       /\ resolved[c] = resolved[1]
       /\ resolved[c] = IF DeclaredMatch(openaiAdapter) THEN "openai"
                        ELSE IF DeclaredMatch(geminiAdapter) THEN "gemini"
                        ELSE IF DeclaredMatch(claudeAdapter) THEN "claude"
                        ELSE "other"

\* two calls for a URL of the claude page that carries a chatgpt URL in its
\* query: patterns of two profiles match, the first declared one is returned
C12_Witness ==
  /\ Len(resolved) = 2
  /\ url = <<"https://claude.ai", "/", "?u=", "https://chatgpt.com">>
  /\ resolved[2] = "openai"

C14_ResetEmptiesRegistry ==
  lastOp \in {"reset", "restart"} => (processedMessages = {} /\ ~staleEntries)

\* C15: right after a reset, by navigation or by the watchdog, no observer
\* created earlier is connected, primary or watchdog.
C15_ResetDisconnects ==
  lastOp \in {"reset", "restart"}
    => (~observer /\ leaked = 0 /\ dogsCur = 0 /\ dogsOld = 0)

\* C18: under a dynamic-content profile, the watchdog callback that receives
\* the record of the replacement of the observed container restarts the
\* observation, whether the new container is the added node or nested in it.
C18_WatchdogDetectsReplacement ==
  [][( /\ queue # <<>>
       /\ queue[1].type = "body"
       /\ queue' = <<>>
       /\ adapter.isDynamicContent
       /\ observer /\ stale )
       => (~isInitialized' /\ setupWaiting' > setupWaiting)]_vars

\* C16: a timer that was scheduled before a reset or before a newer navigation
\* changes nothing when it fires: a navigation timer that fires while a newer
\* one is pending performs no reset; a container-retry timer or an older
\* re-initialisation timer that fires right after a reset starts no setup.
C16_StaleTimersNoOp ==
  [][/\ (navTimers >= 2 /\ navTimers' < navTimers)
          => UNCHANGED <<ctlVars, reinitTimers, setupWaiting>>
     /\ (lastOp = "reset" /\ retryTimers' < retryTimers)
          => UNCHANGED <<ctlVars, setupWaiting>>
     /\ (lastOp = "reset" /\ reinitTimers >= 2 /\ reinitTimers' < reinitTimers)
          => UNCHANGED <<ctlVars, setupWaiting>>]_vars

\* C17: under a streaming profile, a tracked node that is marked complete but
\* not capture-ready (its text was not above the threshold) becomes
\* capture-ready in the callback that delivers a text mutation after which its
\* text is above the threshold and it still evaluates complete.
C17_ParkedPromotedLater ==
  [][\A n \in Nodes :
       ( /\ queue # <<>>
         /\ queue' = <<>>
         /\ adapter.hasStreamingResponse
         /\ n \in processedMessages
         /\ complete[n] = "true"
         /\ ~ready[n]
         /\ \E i \in 1..Len(queue) :
              queue[i].node = n /\ queue[i].type = "characterData"
         /\ isMessageComplete(n)
         /\ text[n] > CaptureThreshold )
         => ready'[n]]_vars

\* C19: a step that marks a node capture-ready (runs the hand-off for it) is
\* a step after which the node evaluates complete and its extracted text is
\* longer than 20 characters; in particular not for an empty text and not for
\* a text of exactly 20 characters.
C19_PromotionGuard ==
  [][\A n \in Nodes :
       (prep'[n] > prep[n] \/ (ready'[n] /\ ~ready[n]))
         => (isMessageComplete(n)' /\ text'[n] > CaptureThreshold)]_vars

\* a callback handled a text mutation of a tracked node that has just become
\* complete with a text of exactly 20 characters: it is not marked
C19_Witness ==
  \E n \in Nodes :
    /\ adapter.hasStreamingResponse
    /\ lastOp = "characterData"
    /\ n \in processedMessages
    /\ text[n] = CaptureThreshold
    /\ ~loading[n]
    /\ complete[n] = "true"
    /\ ~ready[n]
    /\ prep[n] = 0

C21_CaptureReadyTerminal ==
  [][\A n \in Nodes : ready[n] => (ready'[n] /\ data'[n] # NoData)]_vars

\* a callback handled the reappearance of the indicator in a capture-ready
\* node: the node is marked incomplete and keeps its capture-ready mark
C21_Witness ==
  \E n \in Nodes :
    /\ lastOp = "attributes"
    /\ n \in processedMessages
    /\ loading[n]
    /\ complete[n] = "false"
    /\ ready[n]
    /\ prep[n] = 1

\* C22: a step that runs the hand-off for a node whose affordance cannot be
\* rendered (no action bar, or the renderer throws) leaves the node marked
\* capture-ready with its snapshot, so quickCapture saves its text; the
\* failure does not leave the callback and no record of the batch is skipped.
C22_RenderFailureContained ==
  [][\A n \in Nodes :
       (prep'[n] > prep[n] /\ (~bar[n] \/ renderBroken))
         => /\ ready'[n]
            /\ data'[n] = text[n]
            /\ quickCapture(n)' = text[n]
            /\ buttons'[n] = buttons[n]
            /\ queue # <<>> => (~escaped' /\ dropped' = 0)]_vars

\* a node with an action bar was prepared while the renderer threw: it is
\* capture-ready without an affordance
C22_Witness ==
  \E n \in Nodes :
    /\ renderBroken
    /\ bar[n]
    /\ lastOp \in {"scan", "childList", "attributes", "characterData"}
    /\ ready[n]
    /\ prep[n] = 1
    /\ data[n] = text[n]
    /\ buttons[n] = 0

\* C23: at every moment at most one primary observer created by the controller
\* is connected, the referenced one and the unreferenced ones counted together.
C23_SinglePrimaryObserver ==
  leaked + (IF observer THEN 1 ELSE 0) <= 1

\* C24: when the save behind an activation failed (error answer, unknown
\* message type, messaging timeout, nothing to save), the affordance does not
\* show its success feedback for that activation.
C24_FailedCaptureShowsError ==
  [][\A n \in Nodes :
       (lastSave'[n] = "failed" /\ feedback'[n] # feedback[n])
         => feedback'[n] # "success"]_vars

\* C25: in Shadow-DOM mode a capture-ready node of the document that the
\* controller has scanned and that carries an affordance host has a mounted
\* affordance, also when the host is left over from before a reset.
C25_AffordanceSurvivesReset ==
  \A n \in Nodes :
    (useShadowDOM /\ n \in inDoc /\ n \in processedMessages /\ ready[n]
       /\ buttons[n] > 0)
      => mounted[n]

\* C26: what an activation sends to persistence is the text of the snapshot
\* of the activated message, whatever is selected on the page.
C26_ActivationSavesSnapshot ==
  sentContent # NoData => \E n \in Nodes : sentContent = data[n]

\* C27: a callback that delivers nothing but records of the controller's own
\* writes (an affordance inserted, the feedback class toggled) runs no capture
\* hand-off, marks no node capture-ready, renders nothing and queues nothing.
C27_OwnWritesNoTransition ==
  [][(/\ queue # <<>>
      /\ \A i \in 1..Len(queue) : queue[i].what \in {"affordance", "feedback"})
       => (\/ Len(queue') > Len(queue)
           \/ /\ prep' = prep
              /\ ready' = ready
              /\ data' = data
              /\ buttons' = buttons
              /\ mounted' = mounted
              /\ queue' = <<>>)]_vars

\* C28: sendMessage makes at most retries + 1 attempts; an answer that comes
\* after the timeout of its attempt changes nothing; an attempt is settled by
\* its answer or by its timeout while it is waiting, never by both; the call
\* fails only when its last attempt was rejected.
C28_SendMessageSettlesOnce ==
  [][/\ \A i \in 1..Len(calls') : calls'[i].attempt <= Retries
     /\ lateResponses' < lateResponses
          => (calls' = calls /\ lastSave' = lastSave /\ feedback' = feedback
                /\ saveSent' = saveSent)
     /\ (lateResponses' > lateResponses \/ Len(calls') < Len(calls))
          => \E i \in 1..Len(calls) :
               /\ calls[i].phase = "waiting"
               /\ \/ calls' = RemoveAt(calls, i)
                  \/ calls' = [calls EXCEPT ![i].phase = "delay"]
     /\ \A n \in Nodes :
          (Len(calls') < Len(calls) /\ lastSave'[n] = "failed")
            => \E i \in 1..Len(calls) :
                 /\ calls[i].attempt = Retries
                 /\ calls' = RemoveAt(calls, i)]_vars

\* a call failed after both of its attempts timed out, and the answers to
\* them are still to come
C28_Witness ==
  \E n \in Nodes :
    /\ calls = <<>>
    /\ lastSave[n] = "failed"
    /\ saveSent[n] = Retries + 1
    /\ lateResponses = Retries + 1

\* C29: in the ContentScriptManager, the callback that delivers a character-
\* data record for a tracked message marked incomplete, which is now complete
\* with more than 20 characters, marks it capture-ready and stores its data.
C29_ManagerStreamingPromotes ==
  [][\A n \in Nodes :
       (/\ queue = <<Record("characterData", n, FALSE, "inner", "text")>>
        /\ queue' = <<>>
        /\ adapter.hasStreamingResponse
        /\ n \in processedMessages
        /\ complete[n] = "false"
        /\ Manager_isMessageComplete(n)
        /\ Manager_extractMessageText(n) > CaptureThreshold)
         => (ready'[n] /\ data'[n] = text[n])]_vars

\* C30: whenever a template is selected in the builder store, elements holds
\* an entry for that template, so a template-based build finds it.
C30_SelectedTemplateInElements ==
  selectedTemplate # Null => templateElementFound

====
